---- MODULE Spec2Model ----
(***************************************************************************)
(* Model of file-upload-download-server.py: the request handlers of        *)
(* FixedHTTPRequestHandler (/list, /download, /upload, /create_folder),    *)
(* the path confinement of get_full_path, and the POSIX filesystem and     *)
(* os.path functions the handlers call.                                    *)
(*                                                                         *)
(* A string is a sequence of characters, a character a one-element token.  *)
(* A location is the sequence of names from "/" down to a filesystem       *)
(* object; the filesystem holds no symbolic links.                         *)
(***************************************************************************)
EXTENDS Integers, Sequences, FiniteSets, TLC

\* fsDirs, fsFiles: the filesystem.  req, resp: the request being served
\* and the response sent for it.  created: the (path, name) pairs for which
\* /create_folder has answered 200.  phase: "serving" while the server waits
\* for a request, "handled" when a handler has answered.
\* saved: for every file an upload has saved and none has written since, the
\* path t/d it was uploaded under, its content and its location.
\* errored: a request has been answered with an error status.
\* threads: the handlers that run step by step, system call by system call
\* (none while requests are handled one at a time).
VARIABLES fsDirs, fsFiles, req, resp, created, saved, phase, errored, threads

vars == <<fsDirs, fsFiles, req, resp, created, saved, phase, errored, threads>>

(***************************************************************************)
(* Bounds                                                                  *)
(***************************************************************************)
\* The longest path string given to get_full_path alone.
MaxPathLen == 7
\* The most objects a run of requests creates.
MaxCreated == 3
\* The most parts of an upload within a run of requests.
MaxSeqParts == 1
\* The most parts of the upload of a single batch.
MaxParts == 3

(***************************************************************************)
(* Characters and strings                                                  *)
(***************************************************************************)
\* One character outside ASCII (e-acute, U+00E9).
NonAscii == "u00e9"

\* Two control characters (U+0011, U+0017).
Ctl11 == "x11"
Ctl17 == "x17"

\* The characters of the model.
Char == {" ", "%", ".", "/", "1", "7", "\\", "p", "q", "r", "w",
         Ctl11, Ctl17, NonAscii}

ord(c) ==
    CASE c = Ctl11 -> 17
      [] c = Ctl17 -> 23
      [] c = " " -> 32
      [] c = "%" -> 37
      [] c = "." -> 46
      [] c = "/" -> 47
      [] c = "1" -> 49
      [] c = "7" -> 55
      [] c = "\\" -> 92
      [] c = "_" -> 95
      [] c = "a" -> 97
      [] c = "d" -> 100
      [] c = "e" -> 101
      [] c = "f" -> 102
      [] c = "i" -> 105
      [] c = "l" -> 108
      [] c = "m" -> 109
      [] c = "n" -> 110
      [] c = "p" -> 112
      [] c = "q" -> 113
      [] c = "r" -> 114
      [] c = "u" -> 117
      [] c = "w" -> 119
      [] c = NonAscii -> 233

chr(n) == CHOOSE c \in Char : ord(c) = n

\* Op applied to the value of x, which is computed once.
Let(x, Op(_)) == CHOOSE y \in {Op(v) : v \in {x}} : TRUE

EmptyStr == <<>>
sep == "/"
dot == <<".">>
dotdot == <<".", ".">>

startswith(s, p) ==
    /\ Len(p) <= Len(s)
    /\ SubSeq(s, 1, Len(p)) = p

endswith(s, p) ==
    /\ Len(p) <= Len(s)
    /\ SubSeq(s, Len(s) - Len(p) + 1, Len(s)) = p

\* str.split(c): the pieces between the occurrences of c, empty ones kept.
RECURSIVE split(_, _)
split(s, c) ==
    IF \A i \in 1..Len(s) : s[i] # c
    THEN <<s>>
    ELSE LET i == CHOOSE k \in 1..Len(s) :
                      s[k] = c /\ \A j \in 1..(k - 1) : s[j] # c
         IN  <<SubSeq(s, 1, i - 1)>> \o split(SubSeq(s, i + 1, Len(s)), c)

\* c.join(comps)
RECURSIVE joinStr(_, _)
joinStr(c, comps) ==
    IF comps = <<>> THEN EmptyStr
    ELSE IF Len(comps) = 1 THEN comps[1]
    ELSE comps[1] \o <<c>> \o joinStr(c, Tail(comps))

\* str.replace(old, new) for single characters
replace(s, old, new) == [i \in 1..Len(s) |-> IF s[i] = old THEN new ELSE s[i]]

\* str.strip(): leading and trailing whitespace removed
RECURSIVE lstrip(_)
lstrip(s) == IF s # <<>> /\ Head(s) = " " THEN lstrip(Tail(s)) ELSE s

RECURSIVE rstrip(_)
rstrip(s) ==
    IF s # <<>> /\ s[Len(s)] = " " THEN rstrip(SubSeq(s, 1, Len(s) - 1)) ELSE s

strip(s) == rstrip(lstrip(s))

(***************************************************************************)
(* os.path (posixpath)                                                     *)
(***************************************************************************)
\* The loop of posixpath.normpath over the components.
RECURSIVE NormComps(_, _, _)
NormComps(comps, new_comps, initial_slashes) ==
    IF comps = <<>> THEN new_comps
    ELSE LET comp == Head(comps)
             rest == Tail(comps)
         IN  IF comp \in {EmptyStr, dot}
             THEN NormComps(rest, new_comps, initial_slashes)
             ELSE IF \/ comp # dotdot
                     \/ (initial_slashes = 0 /\ new_comps = <<>>)
                     \/ (new_comps # <<>> /\ new_comps[Len(new_comps)] = dotdot)
                  THEN NormComps(rest, Append(new_comps, comp), initial_slashes)
                  ELSE IF new_comps # <<>>
                       THEN NormComps(rest,
                                      SubSeq(new_comps, 1, Len(new_comps) - 1),
                                      initial_slashes)
                       ELSE NormComps(rest, new_comps, initial_slashes)

normpath(path) ==
    IF path = EmptyStr THEN dot
    ELSE LET initial_slashes ==
                 IF ~startswith(path, <<sep>>) THEN 0
                 ELSE IF startswith(path, <<sep, sep>>)
                         /\ ~startswith(path, <<sep, sep, sep>>)
                      THEN 2
                      ELSE 1
             comps == NormComps(split(path, sep), <<>>, initial_slashes)
             joined == [i \in 1..initial_slashes |-> sep] \o joinStr(sep, comps)
         IN  IF joined = EmptyStr THEN dot ELSE joined

\* os.path.join(a, b): an absolute b discards a.
join(a, b) ==
    IF startswith(b, <<sep>>) THEN b
    ELSE IF a = EmptyStr \/ endswith(a, <<sep>>) THEN a \o b
    ELSE a \o <<sep>> \o b

\* posixpath.split(p): <<head, tail>>, tail the part after the last slash.
RECURSIVE rstripSep(_)
rstripSep(s) ==
    IF s # <<>> /\ s[Len(s)] = sep THEN rstripSep(SubSeq(s, 1, Len(s) - 1)) ELSE s

pathsplit(p) ==
    LET slashes == {k \in 1..Len(p) : p[k] = sep}
        i == IF slashes = {} THEN 0
             ELSE CHOOSE k \in slashes : \A j \in slashes : j <= k
        head == SubSeq(p, 1, i)
        tail == SubSeq(p, i + 1, Len(p))
    IN  <<IF rstripSep(head) # EmptyStr THEN rstripSep(head) ELSE head, tail>>

(***************************************************************************)
(* The served directory and get_full_path                                  *)
(***************************************************************************)
\* The --directory argument: the absolute path /r.
base_directory == <<"/", "r">>

\* The location of the served directory.
RootLoc == << <<"r">> >>

\* The mutant joins by string concatenation.
get_full_path_concat(rel_path) ==
    LET norm0 == normpath(rel_path)
        norm1 == IF startswith(norm0, <<sep>>) \/ startswith(norm0, <<".", sep>>)
                 THEN Tail(norm0) ELSE norm0
        norm_path == IF norm1 = dotdot \/ startswith(norm1, <<".", ".", sep>>)
                     THEN EmptyStr ELSE norm1
    IN  base_directory \o norm_path

\* The mutant does not look for a leading "..".
get_full_path_no_dotdot(rel_path) ==
    LET norm0 == normpath(rel_path)
        norm_path == IF startswith(norm0, <<sep>>) \/ startswith(norm0, <<".", sep>>)
                     THEN Tail(norm0) ELSE norm0
    IN  join(base_directory, norm_path)

get_full_path(rel_path) ==
    LET norm0 == normpath(rel_path)
        norm1 == IF startswith(norm0, <<sep>>) \/ startswith(norm0, <<".", sep>>)
                 THEN Tail(norm0) ELSE norm0
        norm_path == IF norm1 = dotdot \/ startswith(norm1, <<".", ".", sep>>)
                     THEN EmptyStr ELSE norm1
    IN  join(base_directory, norm_path)

(***************************************************************************)
(* Path resolution of the operating system                                 *)
(***************************************************************************)
\* The location an absolute path string names, every component taken to
\* exist: empty and "." components stay, ".." goes to the parent ("/" is
\* its own parent).
RECURSIVE CanonFrom(_, _)
CanonFrom(loc, comps) ==
    IF comps = <<>> THEN loc
    ELSE LET comp == Head(comps)
         IN  IF comp \in {EmptyStr, dot} THEN CanonFrom(loc, Tail(comps))
             ELSE IF comp = dotdot
                  THEN CanonFrom(IF loc = <<>> THEN loc
                                 ELSE SubSeq(loc, 1, Len(loc) - 1), Tail(comps))
                  ELSE CanonFrom(Append(loc, comp), Tail(comps))

Canon(path) == CanonFrom(<<>>, split(path, sep))

\* loc is the served directory or lies below it.
Inside(loc) ==
    /\ Len(loc) >= Len(RootLoc)
    /\ SubSeq(loc, 1, Len(RootLoc)) = RootLoc

(***************************************************************************)
(* urllib.parse.unquote                                                    *)
(***************************************************************************)
\* The hexadecimal digits among the characters of the model.
IsHex(c) == c \in {"1", "7"}

hexval(c) == CASE c = "1" -> 1 [] c = "7" -> 7

\* Every %XY with X and Y hexadecimal digits becomes the character of that
\* code; any other % stays.
RECURSIVE unquote(_)
unquote(s) ==
    IF s = <<>> THEN <<>>
    ELSE IF Head(s) = "%" /\ Len(s) >= 3 /\ IsHex(s[2]) /\ IsHex(s[3])
         THEN <<chr(16 * hexval(s[2]) + hexval(s[3]))>>
                  \o unquote(SubSeq(s, 4, Len(s)))
         ELSE <<Head(s)>> \o unquote(Tail(s))

(***************************************************************************)
(* The filesystem: D the set of directory locations, F the function from   *)
(* the locations of regular files to their contents.                       *)
(***************************************************************************)
Parent(loc) == IF loc = <<>> THEN loc ELSE SubSeq(loc, 1, Len(loc) - 1)

\* Path resolution over comps from the directory loc: a component is looked
\* up only in an existing directory (ENOENT, ENOTDIR otherwise).  The last
\* component need not exist.
RECURSIVE WalkFrom(_, _, _)
WalkFrom(D, loc, comps) ==
    IF comps = <<>> THEN [ok |-> TRUE, loc |-> loc]
    ELSE IF loc \notin D THEN [ok |-> FALSE, loc |-> loc]
    ELSE LET comp == Head(comps)
         IN  IF comp \in {EmptyStr, dot} THEN WalkFrom(D, loc, Tail(comps))
             ELSE IF comp = dotdot THEN WalkFrom(D, Parent(loc), Tail(comps))
             ELSE WalkFrom(D, Append(loc, comp), Tail(comps))

\* stat(path) of an absolute path; the empty path names nothing.
Walk(D, path) ==
    IF path = EmptyStr THEN [ok |-> FALSE, loc |-> <<>>]
    ELSE WalkFrom(D, <<>>, split(path, sep))

\* os.path.exists, os.path.isdir
exists(D, F, path) ==
    LET w == Walk(D, path) IN w.ok /\ (w.loc \in D \/ w.loc \in DOMAIN F)

isdir(D, F, path) ==
    LET w == Walk(D, path) IN w.ok /\ w.loc \in D

\* os.mkdir(path): err is "ok", "EEXIST" (FileExistsError) or "OSError"
\* (FileNotFoundError, NotADirectoryError).
mkdir(D, F, path) ==
    LET p == rstripSep(path)
        comps == split(p, sep)
        last == comps[Len(comps)]
        par == WalkFrom(D, <<>>, SubSeq(comps, 1, Len(comps) - 1))
        target == Append(par.loc, last)
    IN  IF path = EmptyStr THEN [dirs |-> D, err |-> "OSError"]
        ELSE IF p = EmptyStr THEN [dirs |-> D, err |-> "EEXIST"]
        ELSE IF ~par.ok \/ par.loc \notin D THEN [dirs |-> D, err |-> "OSError"]
        ELSE IF last \in {dot, dotdot} THEN [dirs |-> D, err |-> "EEXIST"]
        ELSE IF target \in D \/ target \in DOMAIN F
             THEN [dirs |-> D, err |-> "EEXIST"]
        ELSE [dirs |-> D \cup {target}, err |-> "ok"]

\* os.makedirs(name, exist_ok=True)
RECURSIVE makedirs(_, _, _)
makedirs(D, F, name) ==
    LET ht0 == pathsplit(name)
        ht == IF ht0[2] = EmptyStr THEN pathsplit(ht0[1]) ELSE ht0
        head == ht[1]
        tail == ht[2]
        parents == head # EmptyStr /\ tail # EmptyStr /\ ~exists(D, F, head)
    IN  Let(IF parents THEN makedirs(D, F, head) ELSE [dirs |-> D, err |-> "ok"],
            LAMBDA r :
                IF parents /\ r.err = "OSError" THEN r
                ELSE IF parents /\ tail = dot THEN [dirs |-> r.dirs, err |-> "ok"]
                ELSE Let(mkdir(r.dirs, F, name),
                         LAMBDA m :
                             IF m.err = "ok" THEN m
                             ELSE IF isdir(r.dirs, F, name)
                                  THEN [dirs |-> r.dirs, err |-> "ok"]
                                  ELSE m))

\* The mutant opens the file to append.
OpenWrite_append(D, F, path, content) ==
    LET comps == split(path, sep)
        last == comps[Len(comps)]
        par == WalkFrom(D, <<>>, SubSeq(comps, 1, Len(comps) - 1))
        target == Append(par.loc, last)
    IN  IF \/ path = EmptyStr
           \/ ~par.ok
           \/ par.loc \notin D
           \/ last \in {EmptyStr, dot, dotdot}
           \/ target \in D
        THEN [ok |-> FALSE, files |-> F, loc |-> <<>>]
        ELSE [ok |-> TRUE,
              files |-> [l \in DOMAIN F \cup {target} |->
                            IF l # target THEN F[l]
                            ELSE IF l \in DOMAIN F THEN F[l] \o content
                            ELSE content],
              loc |-> target]

\* The mutant writes a file where a directory is.
OpenWrite_replace_dir(D, F, path, content) ==
    LET comps == split(path, sep)
        last == comps[Len(comps)]
        par == WalkFrom(D, <<>>, SubSeq(comps, 1, Len(comps) - 1))
        target == Append(par.loc, last)
    IN  IF \/ path = EmptyStr
           \/ ~par.ok
           \/ par.loc \notin D
           \/ last \in {EmptyStr, dot, dotdot}
        THEN [ok |-> FALSE, files |-> F, loc |-> <<>>]
        ELSE [ok |-> TRUE,
              files |-> [l \in DOMAIN F \cup {target} |->
                            IF l = target THEN content ELSE F[l]],
              loc |-> target]

\* open(path, 'wb') and write(content): the file is created or truncated;
\* a directory cannot be opened for writing (IsADirectoryError).
OpenWrite(D, F, path, content) ==
    LET comps == split(path, sep)
        last == comps[Len(comps)]
        par == WalkFrom(D, <<>>, SubSeq(comps, 1, Len(comps) - 1))
        target == Append(par.loc, last)
    IN  IF \/ path = EmptyStr
           \/ ~par.ok
           \/ par.loc \notin D
           \/ last \in {EmptyStr, dot, dotdot}
           \/ target \in D
        THEN [ok |-> FALSE, files |-> F, loc |-> <<>>]
        ELSE [ok |-> TRUE,
              files |-> [l \in DOMAIN F \cup {target} |->
                            IF l = target THEN content ELSE F[l]],
              loc |-> target]

\* os.listdir(loc): the names in a directory
listdir(D, F, loc) ==
    {l[Len(l)] : l \in {x \in D \cup DOMAIN F : x # <<>> /\ Parent(x) = loc}}

(***************************************************************************)
(* GET /list                                                               *)
(***************************************************************************)
unnamed_file == <<"u", "n", "n", "a", "m", "e", "d", "_", "f", "i", "l", "e">>

\* The name reported for a child: its ASCII characters.
clean_name(item) ==
    LET ascii == SelectSeq(item, LAMBDA c : ord(c) < 128)
    IN  IF ascii = EmptyStr THEN unnamed_file ELSE ascii

\* The entries reported for the directory at loc (modified times are not
\* modelled).
list_files(D, F, loc) ==
    {[name |-> clean_name(item),
      is_dir |-> Append(loc, item) \in D,
      size |-> IF Append(loc, item) \in D THEN 0 ELSE Len(F[Append(loc, item)])] :
        item \in {i \in listdir(D, F, loc) : ~startswith(i, dot)}}

\* The mutant does not look whether the path is a directory.
do_list_no_dir_check(D, F, rel_path) ==
    LET full_path == get_full_path(rel_path)
    IN  IF ~exists(D, F, full_path)
        THEN [status |-> 404, msg |-> "Directory not found", full |-> full_path,
              files |-> {}, body |-> EmptyStr, count |-> 0, log |-> <<>>,
              sent |-> 1]
        ELSE [status |-> 200, msg |-> "", full |-> full_path,
              files |-> list_files(D, F, Walk(D, full_path).loc),
              body |-> EmptyStr, count |-> 0, log |-> <<>>, sent |-> 1]

\* No response: sent is the number of status lines sent (the calls of
\* send_response and send_error).
NoResp ==
    [status |-> 0, msg |-> "", full |-> EmptyStr, files |-> {}, body |-> EmptyStr,
     count |-> 0, log |-> <<>>, sent |-> 0]

\* The response after one call of send_response or send_error.
Answer == [NoResp EXCEPT !.sent = 1]

do_list(D, F, rel_path) ==
    LET full_path == get_full_path(rel_path)
    IN  IF ~exists(D, F, full_path)
        THEN [Answer EXCEPT !.status = 404, !.msg = "Directory not found",
                            !.full = full_path]
        ELSE IF ~isdir(D, F, full_path)
        THEN [Answer EXCEPT !.status = 400, !.msg = "Path is not a directory",
                            !.full = full_path]
        ELSE [Answer EXCEPT !.status = 200, !.full = full_path,
                            !.files = list_files(D, F, Walk(D, full_path).loc)]

(***************************************************************************)
(* GET /download                                                           *)
(***************************************************************************)
\* rel_path is the query value as parse_qs returns it (already decoded).
do_download(D, F, rel_path) ==
    LET full_path == get_full_path(unquote(rel_path))
    IN  IF ~exists(D, F, full_path)
        THEN [Answer EXCEPT !.status = 404, !.msg = "File not found",
                            !.full = full_path]
        ELSE IF isdir(D, F, full_path)
        THEN [Answer EXCEPT !.status = 400, !.msg = "Cannot download a directory",
                            !.full = full_path]
        ELSE [Answer EXCEPT !.status = 200, !.full = full_path,
                            !.body = F[Walk(D, full_path).loc]]

(***************************************************************************)
(* POST /create_folder                                                     *)
(***************************************************************************)
\* dict.get(key, ''): a field of the JSON object, '' when absent.
get(field) == IF field.present THEN field.val ELSE EmptyStr

\* The mutant does not look whether the folder exists.
do_create_folder_no_check(D, F, body) ==
    LET folder_name == strip(get(body.name))
        rel_path == strip(get(body.path))
        full_path == get_full_path(rel_path)
        new_folder_path == join(full_path, folder_name)
    IN  IF body.kind = "empty"
        THEN [dirs |-> D,
              resp |-> [Answer EXCEPT !.status = 400, !.msg = "No content provided"]]
        ELSE IF body.kind = "invalid"
        THEN [dirs |-> D,
              resp |-> [Answer EXCEPT !.status = 400, !.msg = "Invalid JSON data"]]
        ELSE IF folder_name = EmptyStr
        THEN [dirs |-> D,
              resp |-> [Answer EXCEPT !.status = 400,
                                      !.msg = "Folder name is required"]]
        ELSE IF FALSE
        THEN [dirs |-> D,
              resp |-> [Answer EXCEPT !.status = 400, !.msg = "Folder already exists",
                                      !.full = new_folder_path]]
        ELSE Let(makedirs(D, F, new_folder_path),
                 LAMBDA mk :
                     IF mk.err = "ok"
                     THEN [dirs |-> mk.dirs,
                           resp |-> [Answer EXCEPT
                                        !.status = 200,
                                        !.msg = "Folder created successfully",
                                        !.full = new_folder_path]]
                     ELSE [dirs |-> mk.dirs,
                           resp |-> [Answer EXCEPT
                                        !.status = 500,
                                        !.msg = "Cannot create folder",
                                        !.full = new_folder_path]])

\* The mutant does not strip the folder name.
do_create_folder_no_strip(D, F, body) ==
    LET folder_name == get(body.name)
        rel_path == strip(get(body.path))
        full_path == get_full_path(rel_path)
        new_folder_path == join(full_path, folder_name)
    IN  IF body.kind = "empty"
        THEN [dirs |-> D,
              resp |-> [Answer EXCEPT !.status = 400, !.msg = "No content provided"]]
        ELSE IF body.kind = "invalid"
        THEN [dirs |-> D,
              resp |-> [Answer EXCEPT !.status = 400, !.msg = "Invalid JSON data"]]
        ELSE IF folder_name = EmptyStr
        THEN [dirs |-> D,
              resp |-> [Answer EXCEPT !.status = 400,
                                      !.msg = "Folder name is required"]]
        ELSE IF exists(D, F, new_folder_path)
        THEN [dirs |-> D,
              resp |-> [Answer EXCEPT !.status = 400, !.msg = "Folder already exists",
                                      !.full = new_folder_path]]
        ELSE Let(makedirs(D, F, new_folder_path),
                 LAMBDA mk :
                     IF mk.err = "ok"
                     THEN [dirs |-> mk.dirs,
                           resp |-> [Answer EXCEPT
                                        !.status = 200,
                                        !.msg = "Folder created successfully",
                                        !.full = new_folder_path]]
                     ELSE [dirs |-> mk.dirs,
                           resp |-> [Answer EXCEPT
                                        !.status = 500,
                                        !.msg = "Cannot create folder",
                                        !.full = new_folder_path]])

\* The mutant makes the parent directory before it looks at the name.
do_create_folder_parent_first(D, F, body) ==
    LET folder_name == strip(get(body.name))
        rel_path == strip(get(body.path))
        full_path == get_full_path(rel_path)
        new_folder_path == join(full_path, folder_name)
    IN  IF body.kind = "empty"
        THEN [dirs |-> D,
              resp |-> [Answer EXCEPT !.status = 400, !.msg = "No content provided"]]
        ELSE IF body.kind = "invalid"
        THEN [dirs |-> D,
              resp |-> [Answer EXCEPT !.status = 400, !.msg = "Invalid JSON data"]]
        ELSE IF folder_name = EmptyStr
        THEN [dirs |-> makedirs(D, F, full_path).dirs,
              resp |-> [Answer EXCEPT !.status = 400,
                                      !.msg = "Folder name is required"]]
        ELSE IF exists(D, F, new_folder_path)
        THEN [dirs |-> D,
              resp |-> [Answer EXCEPT !.status = 400, !.msg = "Folder already exists",
                                      !.full = new_folder_path]]
        ELSE Let(makedirs(D, F, new_folder_path),
                 LAMBDA mk :
                     IF mk.err = "ok"
                     THEN [dirs |-> mk.dirs,
                           resp |-> [Answer EXCEPT
                                        !.status = 200,
                                        !.msg = "Folder created successfully",
                                        !.full = new_folder_path]]
                     ELSE [dirs |-> mk.dirs,
                           resp |-> [Answer EXCEPT
                                        !.status = 500,
                                        !.msg = "Cannot create folder",
                                        !.full = new_folder_path]])

\* body.kind: "empty" (Content-Length 0), "invalid" (not JSON) or "object".
\* The result is the response and the directories afterwards.
do_create_folder(D, F, body) ==
    LET folder_name == strip(get(body.name))
        rel_path == strip(get(body.path))
        full_path == get_full_path(rel_path)
        new_folder_path == join(full_path, folder_name)
    IN  IF body.kind = "empty"
        THEN [dirs |-> D,
              resp |-> [Answer EXCEPT !.status = 400, !.msg = "No content provided"]]
        ELSE IF body.kind = "invalid"
        THEN [dirs |-> D,
              resp |-> [Answer EXCEPT !.status = 400, !.msg = "Invalid JSON data"]]
        ELSE IF folder_name = EmptyStr
        THEN [dirs |-> D,
              resp |-> [Answer EXCEPT !.status = 400,
                                      !.msg = "Folder name is required"]]
        ELSE IF exists(D, F, new_folder_path)
        THEN [dirs |-> D,
              resp |-> [Answer EXCEPT !.status = 400, !.msg = "Folder already exists",
                                      !.full = new_folder_path]]
        ELSE Let(makedirs(D, F, new_folder_path),
                 LAMBDA mk :
                     IF mk.err = "ok"
                     THEN [dirs |-> mk.dirs,
                           resp |-> [Answer EXCEPT
                                        !.status = 200,
                                        !.msg = "Folder created successfully",
                                        !.full = new_folder_path]]
                     ELSE [dirs |-> mk.dirs,
                           resp |-> [Answer EXCEPT
                                        !.status = 500,
                                        !.msg = "Cannot create folder",
                                        !.full = new_folder_path]])

(***************************************************************************)
(* POST /upload                                                            *)
(***************************************************************************)
\* The mutant takes only / for a separator in a declared filename.
save_item_slash_only(full_target_path, item, st) ==
    LET filename == item.filename
        nested == \E i \in 1..Len(filename) : filename[i] = "/"
        normalized_filename == filename
        path_parts == split(normalized_filename, "/")
        rel_filename == path_parts[Len(path_parts)]
        rel_path == joinStr("/", SubSeq(path_parts, 1, Len(path_parts) - 1))
        folder_path == join(full_target_path, rel_path)
        file_path == IF nested THEN join(folder_path, rel_filename)
                     ELSE join(full_target_path, filename)
        skipped == [written |-> FALSE, loc |-> <<>>]
    IN  IF filename = EmptyStr
        THEN [st EXCEPT !.log = Append(@, skipped)]
        ELSE Let(IF nested /\ ~exists(st.dirs, st.files, folder_path)
                 THEN makedirs(st.dirs, st.files, folder_path)
                 ELSE [dirs |-> st.dirs, err |-> "ok"],
                 LAMBDA mk :
                     IF mk.err # "ok"
                     THEN [st EXCEPT !.dirs = mk.dirs, !.log = Append(@, skipped)]
                     ELSE Let(OpenWrite(mk.dirs, st.files, file_path, item.content),
                              LAMBDA w :
                                  IF ~w.ok
                                  THEN [st EXCEPT !.dirs = mk.dirs,
                                                  !.log = Append(@, skipped)]
                                  ELSE [dirs |-> mk.dirs, files |-> w.files,
                                        files_saved |-> st.files_saved + 1,
                                        log |-> Append(st.log,
                                                       [written |-> TRUE,
                                                        loc |-> w.loc])]))

\* The mutant counts an item before its file is opened.
save_item_count_first(full_target_path, item, st) ==
    LET filename == item.filename
        nested == \E i \in 1..Len(filename) : filename[i] \in {"/", "\\"}
        normalized_filename == replace(filename, "\\", "/")
        path_parts == split(normalized_filename, "/")
        rel_filename == path_parts[Len(path_parts)]
        rel_path == joinStr("/", SubSeq(path_parts, 1, Len(path_parts) - 1))
        folder_path == join(full_target_path, rel_path)
        file_path == IF nested THEN join(folder_path, rel_filename)
                     ELSE join(full_target_path, filename)
        skipped == [written |-> FALSE, loc |-> <<>>]
    IN  IF filename = EmptyStr
        THEN [st EXCEPT !.log = Append(@, skipped)]
        ELSE Let(IF nested /\ ~exists(st.dirs, st.files, folder_path)
                 THEN makedirs(st.dirs, st.files, folder_path)
                 ELSE [dirs |-> st.dirs, err |-> "ok"],
                 LAMBDA mk :
                     IF mk.err # "ok"
                     THEN [st EXCEPT !.dirs = mk.dirs, !.log = Append(@, skipped)]
                     ELSE Let(OpenWrite(mk.dirs, st.files, file_path, item.content),
                              LAMBDA w :
                                  IF ~w.ok
                                  THEN [st EXCEPT !.dirs = mk.dirs,
                                                  !.files_saved = @ + 1,
                                                  !.log = Append(@, skipped)]
                                  ELSE [dirs |-> mk.dirs, files |-> w.files,
                                        files_saved |-> st.files_saved + 1,
                                        log |-> Append(st.log,
                                                       [written |-> TRUE,
                                                        loc |-> w.loc])]))

\* The mutant does not replace the backslashes of a declared filename.
save_item_no_replace(full_target_path, item, st) ==
    LET filename == item.filename
        nested == \E i \in 1..Len(filename) : filename[i] \in {"/", "\\"}
        normalized_filename == filename
        path_parts == split(normalized_filename, "/")
        rel_filename == path_parts[Len(path_parts)]
        rel_path == joinStr("/", SubSeq(path_parts, 1, Len(path_parts) - 1))
        folder_path == join(full_target_path, rel_path)
        file_path == IF nested THEN join(folder_path, rel_filename)
                     ELSE join(full_target_path, filename)
        skipped == [written |-> FALSE, loc |-> <<>>]
    IN  IF filename = EmptyStr
        THEN [st EXCEPT !.log = Append(@, skipped)]
        ELSE Let(IF nested /\ ~exists(st.dirs, st.files, folder_path)
                 THEN makedirs(st.dirs, st.files, folder_path)
                 ELSE [dirs |-> st.dirs, err |-> "ok"],
                 LAMBDA mk :
                     IF mk.err # "ok"
                     THEN [st EXCEPT !.dirs = mk.dirs, !.log = Append(@, skipped)]
                     ELSE Let(OpenWrite(mk.dirs, st.files, file_path, item.content),
                              LAMBDA w :
                                  IF ~w.ok
                                  THEN [st EXCEPT !.dirs = mk.dirs,
                                                  !.log = Append(@, skipped)]
                                  ELSE [dirs |-> mk.dirs, files |-> w.files,
                                        files_saved |-> st.files_saved + 1,
                                        log |-> Append(st.log,
                                                       [written |-> TRUE,
                                                        loc |-> w.loc])]))

\* One turn of the loop over the file items.  st holds the filesystem, the
\* counter files_saved, and log: for each item so far, whether its file was
\* written and where.
save_item(full_target_path, item, st) ==
    LET filename == item.filename
        nested == \E i \in 1..Len(filename) : filename[i] \in {"/", "\\"}
        normalized_filename == replace(filename, "\\", "/")
        path_parts == split(normalized_filename, "/")
        rel_filename == path_parts[Len(path_parts)]
        rel_path == joinStr("/", SubSeq(path_parts, 1, Len(path_parts) - 1))
        folder_path == join(full_target_path, rel_path)
        file_path == IF nested THEN join(folder_path, rel_filename)
                     ELSE join(full_target_path, filename)
        skipped == [written |-> FALSE, loc |-> <<>>]
    IN  IF filename = EmptyStr
        THEN [st EXCEPT !.log = Append(@, skipped)]
        ELSE Let(IF nested /\ ~exists(st.dirs, st.files, folder_path)
                 THEN makedirs(st.dirs, st.files, folder_path)
                 ELSE [dirs |-> st.dirs, err |-> "ok"],
                 LAMBDA mk :
                     IF mk.err # "ok"
                     THEN [st EXCEPT !.dirs = mk.dirs, !.log = Append(@, skipped)]
                     ELSE Let(OpenWrite(mk.dirs, st.files, file_path, item.content),
                              LAMBDA w :
                                  IF ~w.ok
                                  THEN [st EXCEPT !.dirs = mk.dirs,
                                                  !.log = Append(@, skipped)]
                                  ELSE [dirs |-> mk.dirs, files |-> w.files,
                                        files_saved |-> st.files_saved + 1,
                                        log |-> Append(st.log,
                                                       [written |-> TRUE,
                                                        loc |-> w.loc])]))

RECURSIVE save_items(_, _, _)
save_items(full_target_path, file_items, st) ==
    IF file_items = <<>> THEN st
    ELSE Let(save_item(full_target_path, Head(file_items), st),
             LAMBDA s : save_items(full_target_path, Tail(file_items), s))

\* The mutant answers 200 when no file was saved.
do_upload_ok_on_zero(D, F, path, parts) ==
    LET target_path == strip(path)
        full_target_path == get_full_path(target_path)
    IN  Let(IF ~exists(D, F, full_target_path)
            THEN makedirs(D, F, full_target_path)
            ELSE [dirs |-> D, err |-> "ok"],
            LAMBDA mk :
                IF mk.err # "ok"
                THEN [dirs |-> mk.dirs, files |-> F,
                      resp |-> [Answer EXCEPT !.status = 500,
                                              !.msg = "Cannot create directory",
                                              !.full = full_target_path]]
                ELSE Let(save_items(full_target_path, parts,
                                    [dirs |-> mk.dirs, files |-> F,
                                     files_saved |-> 0, log |-> <<>>]),
                         LAMBDA st :
                             [dirs |-> st.dirs, files |-> st.files,
                              resp |-> [Answer EXCEPT
                                  !.status = IF st.files_saved >= 0 THEN 200 ELSE 400,
                                  !.msg = IF st.files_saved >= 0
                                          THEN "Upload successful"
                                          ELSE "No valid files found in upload",
                                  !.full = full_target_path,
                                  !.count = st.files_saved,
                                  !.log = st.log]]))

\* The mutant goes on to the parts when the target cannot be created.
do_upload_ignore_target_error(D, F, path, parts) ==
    LET target_path == strip(path)
        full_target_path == get_full_path(target_path)
    IN  Let(IF ~exists(D, F, full_target_path)
            THEN makedirs(D, F, full_target_path)
            ELSE [dirs |-> D, err |-> "ok"],
            LAMBDA mk :
                IF FALSE
                THEN [dirs |-> mk.dirs, files |-> F,
                      resp |-> [Answer EXCEPT !.status = 500,
                                              !.msg = "Cannot create directory",
                                              !.full = full_target_path]]
                ELSE Let(save_items(full_target_path, parts,
                                    [dirs |-> mk.dirs, files |-> F,
                                     files_saved |-> 0, log |-> <<>>]),
                         LAMBDA st :
                             [dirs |-> st.dirs, files |-> st.files,
                              resp |-> [Answer EXCEPT
                                  !.status = IF st.files_saved > 0 THEN 200 ELSE 400,
                                  !.msg = IF st.files_saved > 0
                                          THEN "Upload successful"
                                          ELSE "No valid files found in upload",
                                  !.full = full_target_path,
                                  !.count = st.files_saved,
                                  !.log = st.log]]))

\* path: the form field `path` ('' when absent); parts: the `files` items.
do_upload(D, F, path, parts) ==
    LET target_path == strip(path)
        full_target_path == get_full_path(target_path)
    IN  Let(IF ~exists(D, F, full_target_path)
            THEN makedirs(D, F, full_target_path)
            ELSE [dirs |-> D, err |-> "ok"],
            LAMBDA mk :
                IF mk.err # "ok"
                THEN [dirs |-> mk.dirs, files |-> F,
                      resp |-> [Answer EXCEPT !.status = 500,
                                              !.msg = "Cannot create directory",
                                              !.full = full_target_path]]
                ELSE Let(save_items(full_target_path, parts,
                                    [dirs |-> mk.dirs, files |-> F,
                                     files_saved |-> 0, log |-> <<>>]),
                         LAMBDA st :
                             [dirs |-> st.dirs, files |-> st.files,
                              resp |-> [Answer EXCEPT
                                  !.status = IF st.files_saved > 0 THEN 200 ELSE 400,
                                  !.msg = IF st.files_saved > 0
                                          THEN "Upload successful"
                                          ELSE "No valid files found in upload",
                                  !.full = full_target_path,
                                  !.count = st.files_saved,
                                  !.log = st.log]]))

(***************************************************************************)
(* Requests                                                                *)
(***************************************************************************)
Strings(chars, n) == UNION {[1..k -> chars] : k \in 0..n}

\* The characters of the paths given to get_full_path alone.
ResolveChars == {"/", ".", "\\", "p"}

Absent == [present |-> FALSE, val |-> EmptyStr]
Field(s) == [present |-> TRUE, val |-> s]

NoBody == [kind |-> "none", name |-> Absent, path |-> Absent]
NoReq == [kind |-> "none", path |-> EmptyStr, body |-> NoBody, parts |-> <<>>]

\* Target paths of /upload.
TargetPaths == {EmptyStr, <<"p">>}

\* Declared filenames of the parts of an upload within a run of requests.
FileNames ==
    {EmptyStr, <<"q">>, <<"p", "/", "q">>, <<NonAscii, ".">>, <<"%", "7", "1">>}

Contents == {<<"x">>, <<"y", "y">>}

\* The path t/d of the file declared d and uploaded to the target t.
TD(t, d) == IF t = EmptyStr THEN d ELSE t \o <<"/">> \o d

DownloadPaths ==
    {TD(t, d) : t \in TargetPaths, d \in FileNames \ {EmptyStr}} \cup {EmptyStr}

ListPaths == {EmptyStr, <<"p">>, <<"/", "/">>}

\* URL paths of POST requests that are neither /create_folder nor /upload.
OtherPaths == {<<"/">>, <<"/", "p">>}

FolderNames ==
    {Absent} \cup
    {Field(n) : n \in {EmptyStr, <<" ">>, <<"p">>, <<"q", "/", "p">>,
                       <<".", ".", "/", "q">>}}

FolderPaths == {Absent} \cup {Field(t) : t \in {EmptyStr, <<"p">>, <<"/", "/">>}}

Bodies ==
    {[NoBody EXCEPT !.kind = "empty"], [NoBody EXCEPT !.kind = "invalid"]} \cup
    {[kind |-> "object", name |-> n, path |-> t] : n \in FolderNames, t \in FolderPaths}

Batches(names, contents, n) ==
    UNION {[1..k -> [filename : names, content : contents]] : k \in 0..n}

\* The served directory when the server starts: it exists and is empty.
InitDirs == {<<>>, RootLoc}
InitFiles == <<>>

Objects(D, F) == Cardinality(D) + Cardinality(DOMAIN F)

\* The run creates at most MaxCreated directories and files.
WithinBound(D, F) == Objects(D, F) <= Objects(InitDirs, InitFiles) + MaxCreated

\* The saved files after an upload: those it wrote replace the entries of
\* the locations written; of two items written to one location the later
\* one stays.
SavedAfter(old, t, parts, log) ==
    LET wrote == {i \in 1..Len(log) : log[i].written}
        last == {i \in wrote : \A j \in wrote : log[j].loc = log[i].loc => j <= i}
    IN  {e \in old : \A i \in wrote : log[i].loc # e.loc} \cup
        {[path |-> TD(t, parts[i].filename), content |-> parts[i].content,
          loc |-> log[i].loc] : i \in last}

\* The statuses sent with send_error.
IsError(status) == status \in {400, 404, 500}

(***************************************************************************)
(* The server: one request is handled at a time (socketserver.TCPServer).  *)
(***************************************************************************)
Init ==
    /\ fsDirs = InitDirs
    /\ fsFiles = InitFiles
    /\ req = NoReq
    /\ resp = NoResp
    /\ created = {}
    /\ saved = {}
    /\ phase = "serving"
    /\ errored = FALSE
    /\ threads = <<>>

List ==
    /\ phase = "serving"
    /\ \E p \in ListPaths :
        /\ req' = [NoReq EXCEPT !.kind = "list", !.path = p]
        /\ resp' = do_list(fsDirs, fsFiles, p)
        /\ phase' = "handled"
        /\ errored' = (errored \/ IsError(resp'.status))
        /\ UNCHANGED <<fsDirs, fsFiles, created, saved, threads>>

Download ==
    /\ phase = "serving"
    /\ \E p \in DownloadPaths :
        /\ req' = [NoReq EXCEPT !.kind = "download", !.path = p]
        /\ resp' = do_download(fsDirs, fsFiles, p)
        /\ phase' = "handled"
        /\ errored' = (errored \/ IsError(resp'.status))
        /\ UNCHANGED <<fsDirs, fsFiles, created, saved, threads>>

CreateFolder ==
    /\ phase = "serving"
    /\ \E b \in Bodies :
        \E r \in {do_create_folder(fsDirs, fsFiles, b)} :
            /\ WithinBound(r.dirs, fsFiles)
            /\ req' = [NoReq EXCEPT !.kind = "create_folder", !.body = b]
            /\ resp' = r.resp
            /\ fsDirs' = r.dirs
            /\ created' = IF r.resp.status = 200
                          THEN created \cup {<<b.path, b.name>>}
                          ELSE created
            /\ phase' = "handled"
            /\ errored' = (errored \/ IsError(r.resp.status))
            /\ UNCHANGED <<fsFiles, saved, threads>>

Upload ==
    /\ phase = "serving"
    /\ \E t \in TargetPaths, parts \in Batches(FileNames, Contents, MaxSeqParts) :
        \E r \in {do_upload(fsDirs, fsFiles, t, parts)} :
            /\ WithinBound(r.dirs, r.files)
            /\ req' = [NoReq EXCEPT !.kind = "upload", !.path = t, !.parts = parts]
            /\ resp' = r.resp
            /\ fsDirs' = r.dirs
            /\ fsFiles' = r.files
            /\ saved' = SavedAfter(saved, t, parts, r.resp.log)
            /\ phase' = "handled"
            /\ errored' = (errored \/ IsError(r.resp.status))
            /\ UNCHANGED <<created, threads>>

\* A POST request to a path other than /create_folder and /upload: do_POST
\* tests the two paths and returns.
PostOther ==
    /\ phase = "serving"
    /\ \E p \in OtherPaths :
        /\ req' = [NoReq EXCEPT !.kind = "post", !.path = p]
        /\ resp' = NoResp
        /\ phase' = "handled"
        /\ UNCHANGED <<fsDirs, fsFiles, created, saved, errored, threads>>

\* The mutant: the server stops when a handler has answered with an error.
Finish_only_ok ==
    /\ phase = "handled"
    /\ ~IsError(resp.status)
    /\ req' = NoReq
    /\ resp' = NoResp
    /\ phase' = "serving"
    /\ UNCHANGED <<fsDirs, fsFiles, created, saved, errored, threads>>

\* The handler returns and serve_forever waits for the next request.
Finish ==
    /\ phase = "handled"
    /\ req' = NoReq
    /\ resp' = NoResp
    /\ phase' = "serving"
    /\ UNCHANGED <<fsDirs, fsFiles, created, saved, errored, threads>>

Next == List \/ Download \/ CreateFolder \/ Upload \/ PostOther \/ Finish

Spec == Init /\ [][Next]_vars

\* A handler that has answered returns: the loop of serve_forever goes on.
SpecLive == Init /\ [][Next]_vars /\ WF_vars(Finish)

(***************************************************************************)
(* get_full_path alone, on every path of at most MaxPathLen characters     *)
(***************************************************************************)
InitResolve ==
    /\ fsDirs = InitDirs
    /\ fsFiles = InitFiles
    /\ req \in {[NoReq EXCEPT !.kind = "resolve", !.path = s] :
                   s \in Strings(ResolveChars, MaxPathLen)}
    /\ resp = NoResp
    /\ created = {}
    /\ saved = {}
    /\ phase = "resolve"
    /\ errored = FALSE
    /\ threads = <<>>

Resolve ==
    /\ phase = "resolve"
    /\ resp' = [NoResp EXCEPT !.full = get_full_path(req.path)]
    /\ phase' = "resolved"
    /\ UNCHANGED <<fsDirs, fsFiles, req, created, saved, errored, threads>>

NextResolve == Resolve

SpecResolve == InitResolve /\ [][NextResolve]_vars

(***************************************************************************)
(* One upload of a batch of at most MaxParts parts, to a served directory  *)
(* that is empty, or holds a file p, an empty directory p, or a directory  *)
(* p with a file q                                                         *)
(***************************************************************************)
OldContent == <<"o">>

BatchFS ==
    {[dirs |-> InitDirs, files |-> InitFiles],
     [dirs |-> InitDirs, files |-> [l \in {<<<<"r">>, <<"p">>>>} |-> OldContent]],
     [dirs |-> InitDirs \cup {<<<<"r">>, <<"p">>>>}, files |-> InitFiles],
     [dirs |-> InitDirs \cup {<<<<"r">>, <<"p">>>>},
      files |-> [l \in {<<<<"r">>, <<"p">>, <<"q">>>>} |-> OldContent]]}

BatchNames ==
    {EmptyStr, <<"p">>, <<"q">>, <<"p", "/", "q">>, <<"p", "\\", "q">>,
     <<"p", "/", "p">>, <<"q", "/", "p">>, <<"p", "/", "q", "\\", "p">>,
     <<".", ".", "/", "q">>,
     <<"/", "p", "/", "q">>}

\* Target paths of the upload of a batch.
BatchTargets == TargetPaths \cup {<<"p", "/", "q">>}

\* The content of the i-th part: i bytes.
PartContent(i) == [k \in 1..i |-> "x"]

BatchParts(names) == [i \in 1..Len(names) |-> [filename |-> names[i],
                                               content |-> PartContent(i)]]

InitBatch ==
    /\ \E fs \in BatchFS : fsDirs = fs.dirs /\ fsFiles = fs.files
    /\ req = NoReq
    /\ resp = NoResp
    /\ created = {}
    /\ saved = {}
    /\ phase = "serving"
    /\ errored = FALSE
    /\ threads = <<>>

UploadBatch ==
    /\ phase = "serving"
    /\ \E t \in BatchTargets, names \in Strings(BatchNames, MaxParts) :
        \E parts \in {BatchParts(names)} :
        \E r \in {do_upload(fsDirs, fsFiles, t, parts)} :
            /\ req' = [NoReq EXCEPT !.kind = "upload", !.path = t, !.parts = parts]
            /\ resp' = r.resp
            /\ fsDirs' = r.dirs
            /\ fsFiles' = r.files
            /\ saved' = SavedAfter(saved, t, parts, r.resp.log)
            /\ phase' = "handled"
            /\ errored' = (errored \/ IsError(r.resp.status))
            /\ UNCHANGED <<created, threads>>

NextBatch == UploadBatch

SpecBatch == InitBatch /\ [][NextBatch]_vars

(***************************************************************************)
(* One /list request to a served directory that holds, when the server     *)
(* starts, any of the children of ListNames as files or directories        *)
(***************************************************************************)
ListNames ==
    {<<"p">>, <<"q">>, <<".", "p">>, <<NonAscii>>, <<NonAscii, "p">>,
     <<Ctl11, "p">>}

ListDirPaths ==
    {EmptyStr, <<"p">>, <<"q">>, <<"p", "/", "q">>, <<"w">>, <<"/", "/">>}

InitList ==
    /\ \E kind \in [ListNames -> {"none", "file", "dir"}], sub \in BOOLEAN :
          /\ fsDirs = InitDirs \cup
                          {Append(RootLoc, n) : n \in {m \in ListNames : kind[m] = "dir"}}
          /\ fsFiles =
                 [l \in {Append(RootLoc, n) : n \in {m \in ListNames : kind[m] = "file"}}
                        \cup (IF sub /\ kind[<<"p">>] = "dir"
                              THEN {<<<<"r">>, <<"p">>, <<"q">>>>} ELSE {})
                    |-> OldContent]
    /\ req = NoReq
    /\ resp = NoResp
    /\ created = {}
    /\ saved = {}
    /\ phase = "serving"
    /\ errored = FALSE
    /\ threads = <<>>

ListDir ==
    /\ phase = "serving"
    /\ \E p \in ListDirPaths :
        /\ req' = [NoReq EXCEPT !.kind = "list", !.path = p]
        /\ resp' = do_list(fsDirs, fsFiles, p)
        /\ phase' = "handled"
        /\ errored' = (errored \/ IsError(resp'.status))
        /\ UNCHANGED <<fsDirs, fsFiles, created, saved, threads>>

\* The client follows an entry of the listing by its reported name, as
\* the page does: /list?path=p/name for a directory, /download?path=p/name
\* for a file.
Follow ==
    /\ phase = "handled"
    /\ req.kind = "list"
    /\ resp.status = 200
    /\ \E e \in resp.files :
        /\ req' = [NoReq EXCEPT !.kind = IF e.is_dir THEN "list" ELSE "download",
                                !.path = TD(req.path, e.name)]
        /\ resp' = IF e.is_dir THEN do_list(fsDirs, fsFiles, TD(req.path, e.name))
                   ELSE do_download(fsDirs, fsFiles, TD(req.path, e.name))
        /\ phase' = "followed"
        /\ errored' = (errored \/ IsError(resp'.status))
        /\ UNCHANGED <<fsDirs, fsFiles, created, saved, threads>>

NextList == ListDir \/ Follow

SpecList == InitList /\ [][NextList]_vars

(***************************************************************************)
(* Two /upload handlers of one part each that run at the same time, one    *)
(* system call at a step, on a served directory that starts empty          *)
(***************************************************************************)
Threads == {1, 2}

RaceTargets == {EmptyStr, <<"p">>}

RaceNames ==
    {<<"w">>, <<"q", "/", "w">>, <<"q", "\\", "r">>, <<"q", "/", "p", "/", "w">>}

\* The head and tail os.makedirs takes of a name.
MdSplit(name) ==
    LET ht0 == pathsplit(name)
    IN  IF ht0[2] = EmptyStr THEN pathsplit(ht0[1]) ELSE ht0

\* A call of os.makedirs is a stack of frames, the innermost last; a frame
\* is the name to make and the stage of the call: "stat_head" before the
\* test of the head, "wait" during the call for the head, "mkdir" before
\* os.mkdir, "isdir" after an os.mkdir that failed with the error err.
Frame(name) == [name |-> name, stage |-> "stat_head", err |-> "ok"]

\* The innermost frame returns, or raises FileExistsError to a caller that
\* passes over it: the caller returns in its turn when its tail is ".",
\* else goes on to its os.mkdir.
RECURSIVE MdReturn(_)
MdReturn(stack) ==
    LET rest == SubSeq(stack, 1, Len(stack) - 1)
    IN  IF rest = <<>> THEN <<>>
        ELSE IF MdSplit(rest[Len(rest)].name)[2] = dot THEN MdReturn(rest)
        ELSE [rest EXCEPT ![Len(rest)].stage = "mkdir"]

\* The mutant is os.makedirs without exist_ok: a failed os.mkdir raises.
makedirs_step_no_exist_ok(D, F, stack) ==
    LET n == Len(stack)
        top == stack[n]
        ht == MdSplit(top.name)
    IN  IF top.stage = "stat_head"
        THEN IF ht[1] # EmptyStr /\ ht[2] # EmptyStr /\ ~exists(D, F, ht[1])
             THEN [dirs |-> D, err |-> "ok", raced |-> FALSE,
                   stack |-> Append([stack EXCEPT ![n].stage = "wait"], Frame(ht[1]))]
             ELSE [dirs |-> D, err |-> "ok", raced |-> FALSE,
                   stack |-> [stack EXCEPT ![n].stage = "mkdir"]]
        ELSE LET m == mkdir(D, F, top.name)
             IN  IF m.err = "ok"
                 THEN [dirs |-> m.dirs, err |-> "ok", raced |-> FALSE,
                       stack |-> MdReturn(stack)]
                 ELSE IF m.err = "EEXIST" /\ n > 1
                 THEN [dirs |-> D, err |-> "ok", raced |-> TRUE,
                       stack |-> MdReturn(stack)]
                 ELSE [dirs |-> D, err |-> "OSError", raced |-> m.err = "EEXIST",
                       stack |-> <<>>]

\* One system call of os.makedirs(name, exist_ok=True): the test of the
\* head, os.mkdir, or the os.path.isdir that follows a failed os.mkdir.
\* err is "OSError" when the call raises; the call has returned when the
\* stack is empty.  raced: os.mkdir found the name taken.
makedirs_step(D, F, stack) ==
    LET n == Len(stack)
        top == stack[n]
        ht == MdSplit(top.name)
    IN  IF top.stage = "stat_head"
        THEN IF ht[1] # EmptyStr /\ ht[2] # EmptyStr /\ ~exists(D, F, ht[1])
             THEN [dirs |-> D, err |-> "ok", raced |-> FALSE,
                   stack |-> Append([stack EXCEPT ![n].stage = "wait"], Frame(ht[1]))]
             ELSE [dirs |-> D, err |-> "ok", raced |-> FALSE,
                   stack |-> [stack EXCEPT ![n].stage = "mkdir"]]
        ELSE IF top.stage = "mkdir"
        THEN LET m == mkdir(D, F, top.name)
             IN  IF m.err = "ok"
                 THEN [dirs |-> m.dirs, err |-> "ok", raced |-> FALSE,
                       stack |-> MdReturn(stack)]
                 ELSE [dirs |-> D, err |-> "ok", raced |-> m.err = "EEXIST",
                       stack |-> [stack EXCEPT ![n].stage = "isdir",
                                               ![n].err = m.err]]
        ELSE IF isdir(D, F, top.name) \/ (top.err = "EEXIST" /\ n > 1)
             THEN [dirs |-> D, err |-> "ok", raced |-> FALSE,
                   stack |-> MdReturn(stack)]
             ELSE [dirs |-> D, err |-> "OSError", raced |-> FALSE, stack |-> <<>>]

\* The folder and the file of an item, as the loop over file_items takes
\* them from its filename.
ItemPaths(full_target_path, filename) ==
    LET nested == \E i \in 1..Len(filename) : filename[i] \in {"/", "\\"}
        normalized_filename == replace(filename, "\\", "/")
        path_parts == split(normalized_filename, "/")
        rel_filename == path_parts[Len(path_parts)]
        rel_path == joinStr("/", SubSeq(path_parts, 1, Len(path_parts) - 1))
        folder_path == join(full_target_path, rel_path)
    IN  [nested |-> nested,
         folder_path |-> folder_path,
         file_path |-> IF nested THEN join(folder_path, rel_filename)
                       ELSE join(full_target_path, filename)]

\* A handler at the start of /upload.
Thread(t, name, content) ==
    [pc |-> "target_exists", target |-> get_full_path(strip(t)),
     filename |-> name, content |-> content, stack |-> <<>>,
     status |-> 0, written |-> FALSE, loc |-> <<>>, raced |-> FALSE]

InitRace ==
    /\ fsDirs = InitDirs
    /\ fsFiles = InitFiles
    /\ req = NoReq
    /\ resp = NoResp
    /\ created = {}
    /\ saved = {}
    /\ phase = "threads"
    /\ errored = FALSE
    /\ \E t \in [Threads -> RaceTargets], name \in [Threads -> RaceNames] :
          threads = [w \in Threads |-> Thread(t[w], name[w], PartContent(w))]

\* if not os.path.exists(full_target_path)
TargetExists(w) ==
    /\ threads[w].pc = "target_exists"
    /\ threads' =
          [threads EXCEPT ![w] =
              IF exists(fsDirs, fsFiles, threads[w].target)
              THEN [@ EXCEPT !.pc = "item"]
              ELSE [@ EXCEPT !.pc = "md_target",
                             !.stack = <<Frame(threads[w].target)>>]]
    /\ UNCHANGED <<fsDirs, fsFiles, req, resp, created, saved, phase, errored>>

\* One system call of os.makedirs, for the target or for the folder of
\* the item.  When the call raises the handler answers 500 (target) or
\* passes over the item and answers 400, no file being saved.
MakeDirs(w) ==
    /\ threads[w].pc \in {"md_target", "md_folder"}
    /\ \E r \in {makedirs_step(fsDirs, fsFiles, threads[w].stack)} :
          /\ fsDirs' = r.dirs
          /\ threads' =
                [threads EXCEPT ![w] =
                    IF r.err # "ok"
                    THEN [@ EXCEPT !.pc = "done", !.stack = <<>>,
                                   !.raced = @ \/ r.raced,
                                   !.status = IF threads[w].pc = "md_target"
                                              THEN 500 ELSE 400]
                    ELSE IF r.stack = <<>>
                    THEN [@ EXCEPT !.pc = IF threads[w].pc = "md_target"
                                          THEN "item" ELSE "open",
                                   !.raced = @ \/ r.raced,
                                   !.stack = <<>>]
                    ELSE [@ EXCEPT !.stack = r.stack, !.raced = @ \/ r.raced]]
    /\ UNCHANGED <<fsFiles, req, resp, created, saved, phase, errored>>

\* The item: if not os.path.exists(folder_path) for a nested filename.
Item(w) ==
    /\ threads[w].pc = "item"
    /\ LET ip == ItemPaths(threads[w].target, threads[w].filename)
       IN  threads' =
             [threads EXCEPT ![w] =
                 IF threads[w].filename = EmptyStr
                 THEN [@ EXCEPT !.pc = "done", !.status = 400]
                 ELSE IF ~ip.nested \/ exists(fsDirs, fsFiles, ip.folder_path)
                 THEN [@ EXCEPT !.pc = "open"]
                 ELSE [@ EXCEPT !.pc = "md_folder",
                                !.stack = <<Frame(ip.folder_path)>>]]
    /\ UNCHANGED <<fsDirs, fsFiles, req, resp, created, saved, phase, errored>>

\* open(file_path, 'wb') and write, then the response.
Open(w) ==
    /\ threads[w].pc = "open"
    /\ \E o \in {OpenWrite(fsDirs, fsFiles,
                           ItemPaths(threads[w].target, threads[w].filename).file_path,
                           threads[w].content)} :
          /\ fsFiles' = o.files
          /\ threads' = [threads EXCEPT ![w] =
                            [@ EXCEPT !.pc = "done", !.written = o.ok, !.loc = o.loc,
                                      !.status = IF o.ok THEN 200 ELSE 400]]
    /\ UNCHANGED <<fsDirs, req, resp, created, saved, phase, errored>>

NextRace ==
    \E w \in Threads : TargetExists(w) \/ MakeDirs(w) \/ Item(w) \/ Open(w)

SpecRace == InitRace /\ [][NextRace]_vars

(***************************************************************************)
(* Properties                                                              *)
(***************************************************************************)
IsPrefix(a, b) == Len(a) <= Len(b) /\ SubSeq(b, 1, Len(a)) = a

\* A handler has just answered a request of this kind.
Handled(kind) == phase = "handled" /\ req.kind = kind

\* C1: for every relative path, get_full_path returns a path that names the
\* served directory or a location below it.
C1_ResolvedInsideRoot ==
    phase = "resolved" => Inside(Canon(resp.full))

\* C2: every directory an /upload request creates and every file it writes
\* lies inside the served directory.
C2_UploadInsideRoot ==
    [][(phase' = "handled" /\ req'.kind = "upload") =>
          /\ \A d \in fsDirs' \ fsDirs : Inside(d)
          /\ \A i \in 1..Len(resp'.log) :
                 resp'.log[i].written => Inside(resp'.log[i].loc)]_vars

\* C3: every directory a /create_folder request creates lies inside the
\* served directory.
C3_FolderInsideRoot ==
    [][(phase' = "handled" /\ req'.kind = "create_folder") =>
          \A d \in fsDirs' \ fsDirs : Inside(d)]_vars

\* The names of a declared path, either separator taken.
DeclSegs(d) == split(replace(d, "\\", "/"), "/")

\* The location of the target directory named by a path of plain names.
TargetLoc(t) == RootLoc \o (IF t = EmptyStr THEN <<>> ELSE split(t, "/"))

PlainName(x) == x # EmptyStr /\ x # dot /\ x # dotdot

\* The parts of r are declared under paths of plain names, no two the same
\* and none a directory prefix of another, and the target of r is an
\* existing empty directory of the filesystem D, F.
C4_Pre(D, F, r) ==
    LET T == TargetLoc(r.path)
        segs(i) == DeclSegs(r.parts[i].filename)
        n == Len(r.parts)
    IN  /\ r.kind = "upload"
        /\ T \in D
        /\ \A x \in D \cup DOMAIN F : IsPrefix(T, x) => x = T
        /\ \A i \in 1..n : \A k \in 1..Len(segs(i)) : PlainName(segs(i)[k])
        /\ \A i, j \in 1..n : IsPrefix(segs(i), segs(j)) => i = j

\* C4: an upload, to an existing empty target, of parts declared under
\* distinct paths none of which is a directory prefix of another creates
\* exactly the directories that are proper prefixes of the declared paths and
\* exactly one file per part, at target/declaredPath with the part's content,
\* and the saved count is the number of parts.
C4_UploadReconstructs ==
    [][(phase' = "handled" /\ C4_Pre(fsDirs, fsFiles, req')) =>
          LET T == TargetLoc(req'.path)
              segs(i) == DeclSegs(req'.parts[i].filename)
              n == Len(req'.parts)
              dests == {T \o segs(i) : i \in 1..n}
          IN  /\ fsDirs' = fsDirs \cup
                      UNION {{T \o SubSeq(segs(i), 1, k) :
                                  k \in 1..(Len(segs(i)) - 1)} : i \in 1..n}
              /\ DOMAIN fsFiles' = DOMAIN fsFiles \cup dests
              /\ \A l \in DOMAIN fsFiles : fsFiles'[l] = fsFiles[l]
              /\ \A i \in 1..n : fsFiles'[T \o segs(i)] = req'.parts[i].content
              /\ resp'.count = n
              /\ resp'.status = IF n > 0 THEN 200 ELSE 400]_vars

C4_Witness ==
    /\ Handled("upload")
    /\ req.path = EmptyStr
    /\ Len(req.parts) = 3
    /\ \E i \in 1..3 : "\\" \in {req.parts[i].filename[k] :
                                     k \in 1..Len(req.parts[i].filename)}
    /\ resp.count = 3
    /\ fsDirs = InitDirs \cup {<<<<"r">>, <<"p">>>>, <<<<"r">>, <<"p">>, <<"q">>>>}
    /\ DOMAIN fsFiles = {<<<<"r">>, <<"p">>, <<"q">>, <<"p">>>>,
                         <<<<"r">>, <<"p">>, <<"p">>>>, <<<<"r">>, <<"q">>>>}

\* The items of the log whose file was written.
Written(log) == {i \in 1..Len(log) : log[i].written}

\* C5: in an upload whose target is available every part is processed, a
\* part whose folder cannot be created or whose file cannot be written is
\* skipped, and the saved count is the number of parts whose file was
\* written: each written file is in the filesystem, with the content of the
\* last part written there, and no other file has changed.
C5_SkipAndCount ==
    (Handled("upload") /\ resp.status \in {200, 400}) =>
        /\ Len(resp.log) = Len(req.parts)
        /\ resp.count = Cardinality(Written(resp.log))
        /\ \A i \in Written(resp.log) :
               /\ resp.log[i].loc \in DOMAIN fsFiles
               /\ \E j \in Written(resp.log) :
                      /\ j >= i
                      /\ resp.log[j].loc = resp.log[i].loc
                      /\ fsFiles[resp.log[i].loc] = req.parts[j].content
        /\ \A l \in DOMAIN fsFiles :
               fsFiles[l] # OldContent => \E i \in Written(resp.log) : resp.log[i].loc = l

C5_Witness ==
    /\ Handled("upload")
    /\ resp.status = 200
    /\ resp.count = 1
    /\ Len(req.parts) = 3
    /\ req.parts[1].filename = <<"p", "/", "q">>
    /\ ~resp.log[1].written
    /\ ~resp.log[2].written
    /\ req.parts[2].filename = <<"p", "/", "q", "\\", "p">>
    /\ resp.log[3].written
    /\ <<<<"r">>, <<"p">>>> \in DOMAIN fsFiles

\* C6: a file saved by /upload under the target t and the declared name d,
\* and not written since, is returned by GET /download?path=t/d: status 200
\* and the saved content.
C6_RoundTrip ==
    Handled("download") =>
        \A e \in saved :
            e.path = req.path => resp.status = 200 /\ resp.body = e.content

\* The path of the folder a /create_folder request with this body is about.
FolderTarget(body) ==
    join(get_full_path(strip(get(body.path))), strip(get(body.name)))

IsBlank(s) == \A i \in 1..Len(s) : s[i] = " "

\* A /create_folder request with a JSON object and a name has been answered.
NamedFolderRequest ==
    /\ phase' = "handled"
    /\ req'.kind = "create_folder"
    /\ req'.body.kind = "object"
    /\ ~IsBlank(get(req'.body.name))

\* C7 as claimed: the call on a target that does not exist answers 200 and
\* creates the directory, and every call with a parent and a name that have
\* succeeded before answers 400, folder already exists.
C7_CreateOnceAsClaimed ==
    [][NamedFolderRequest =>
          LET target == FolderTarget(req'.body)
          IN  /\ ~exists(fsDirs, fsFiles, target) =>
                     resp'.status = 200 /\ isdir(fsDirs', fsFiles', target)
              /\ <<req'.body.path, req'.body.name>> \in created =>
                     /\ resp'.status = 400
                     /\ resp'.msg = "Folder already exists"]_vars

\* C7 amended: the call on a target that does not exist answers 200 and
\* creates the directory, or answers 500 when the directory cannot be made;
\* a call answers 200 only on a target that did not exist; and every call with
\* a parent and a name that have succeeded before answers 400, folder already
\* exists, and creates nothing.
C7_CreateOnce ==
    [][NamedFolderRequest =>
          LET target == FolderTarget(req'.body)
          IN  /\ ~exists(fsDirs, fsFiles, target) =>
                     \/ resp'.status = 200 /\ isdir(fsDirs', fsFiles', target)
                     \/ resp'.status = 500 /\ ~isdir(fsDirs', fsFiles', target)
              /\ resp'.status = 200 =>
                     /\ ~exists(fsDirs, fsFiles, target)
                     /\ <<req'.body.path, req'.body.name>> \notin created
              /\ <<req'.body.path, req'.body.name>> \in created =>
                     /\ resp'.status = 400
                     /\ resp'.msg = "Folder already exists"
                     /\ fsDirs' = fsDirs]_vars

\* A second call for a folder made before, with files uploaded meanwhile.
C7_Witness ==
    /\ Handled("create_folder")
    /\ <<req.body.path, req.body.name>> \in created
    /\ resp.status = 400
    /\ resp.msg = "Folder already exists"
    /\ saved # {}

\* C8: a /create_folder request whose name is absent, empty or blank is
\* answered 400, folder name is required, whatever its path, and changes
\* nothing in the filesystem.
C8_BlankNameRejected ==
    [][(/\ phase' = "handled"
        /\ req'.kind = "create_folder"
        /\ req'.body.kind = "object"
        /\ IsBlank(get(req'.body.name))) =>
          /\ resp'.status = 400
          /\ resp'.msg = "Folder name is required"
          /\ fsDirs' = fsDirs
          /\ fsFiles' = fsFiles]_vars

C8_Witness ==
    /\ Handled("create_folder")
    /\ req.body.name = Field(<<" ">>)
    /\ req.body.path = Field(<<"/", "/">>)
    /\ resp.status = 400
    /\ resp.msg = "Folder name is required"

\* C9: get_full_path of the empty path and of "." names the served
\* directory itself.
C9_EmptyAndDotAreRoot ==
    (phase = "resolved" /\ req.path \in {EmptyStr, dot}) =>
        Canon(resp.full) = RootLoc

C9_Witness ==
    /\ phase = "resolved"
    /\ req.path = dot
    /\ Canon(resp.full) = RootLoc

\* C10: no name reported by /list starts with a dot.
C10_NoDotNames ==
    (Handled("list") /\ resp.status = 200) =>
        \A e \in resp.files : ~startswith(e.name, dot)

\* The names of the children of the directory at loc.
Children(loc) ==
    {x \in fsDirs \cup DOMAIN fsFiles : x # <<>> /\ Parent(x) = loc}

Printable(c) == ord(c) >= 32 /\ ord(c) <= 126

\* C11: GET /list answers 404 when the resolved path names nothing, 400 when
\* it names a regular file, and 200 only when it names a directory, with an
\* entry for each child that has a plain visible name.
C11_ListStatus ==
    Handled("list") =>
        LET loc == Canon(resp.full)
        IN  /\ loc \notin fsDirs \cup DOMAIN fsFiles =>
                   resp.status = 404 /\ resp.files = {}
            /\ loc \in DOMAIN fsFiles => resp.status = 400 /\ resp.files = {}
            /\ loc \in fsDirs =>
                   /\ resp.status = 200
                   /\ \A x \in Children(loc) :
                          LET n == x[Len(x)]
                          IN  (n[1] # "." /\ \A i \in 1..Len(n) : Printable(n[i])) =>
                                  \E e \in resp.files :
                                      e.name = n /\ e.is_dir = (x \in fsDirs)
                   /\ Cardinality(resp.files) <= Cardinality(Children(loc))

C11_Witness ==
    /\ Handled("list")
    /\ req.path = <<"q">>
    /\ Canon(resp.full) \in DOMAIN fsFiles
    /\ resp.status = 400

\* C20: every name reported by /list is not empty and holds only printable
\* ASCII characters.
C20_PrintableNames ==
    (Handled("list") /\ resp.status = 200) =>
        \A e \in resp.files :
            /\ e.name # EmptyStr
            /\ \A i \in 1..Len(e.name) : Printable(e.name[i])

\* C12: an upload whose target is a directory once the target has been
\* ensured is answered 200, with the count, when at least one part was
\* written, and 400, no valid files, when none was; it is never answered
\* otherwise.
C12_StatusByCount ==
    (Handled("upload") /\ Canon(resp.full) \in fsDirs) =>
        /\ resp.status \in {200, 400}
        /\ resp.status = 200 <=> Written(resp.log) # {}
        /\ resp.status = 200 => resp.count = Cardinality(Written(resp.log))
        /\ resp.status = 400 => resp.msg = "No valid files found in upload"

\* Every part of the upload has a filename and none was written.
C12_Witness ==
    /\ Handled("upload")
    /\ Canon(resp.full) \in fsDirs
    /\ Len(req.parts) = 2
    /\ \A i \in 1..2 : req.parts[i].filename # EmptyStr
    /\ Written(resp.log) = {}
    /\ resp.status = 400

\* C13: an upload whose target does not exist and cannot be created, a
\* directory above it being a regular file, is answered 500 and changes
\* nothing: no part is processed, no file written, no directory created.
C13_TargetFailureAborts ==
    [][(/\ phase' = "handled"
        /\ req'.kind = "upload"
        /\ LET T == Canon(resp'.full)
           IN  \E k \in 1..(Len(T) - 1) : SubSeq(T, 1, k) \in DOMAIN fsFiles) =>
          /\ resp'.status = 500
          /\ resp'.log = <<>>
          /\ resp'.count = 0
          /\ fsDirs' = fsDirs
          /\ fsFiles' = fsFiles]_vars

C13_Witness ==
    /\ Handled("upload")
    /\ req.path = <<"p", "/", "q">>
    /\ Len(req.parts) = 2
    /\ \A i \in 1..2 : req.parts[i].filename = <<"q">>
    /\ <<<<"r">>, <<"p">>>> \in DOMAIN fsFiles
    /\ DOMAIN fsFiles = {<<<<"r">>, <<"p">>>>}
    /\ resp.status = 500

\* C17: when an upload has gone on to its parts (it is answered 200 or 400),
\* its target is a directory.
C17_TargetIsDirectory ==
    (Handled("upload") /\ resp.status \in {200, 400}) =>
        Canon(resp.full) \in fsDirs

\* C14: after a request has been answered with an error (400, 404 or 500,
\* the 500 of an exception caught in the handler included) the server comes
\* back to the state in which it accepts the next request.
C14_ErrorNotFatal ==
    (phase = "handled" /\ IsError(resp.status)) ~> (phase = "serving")

\* A request answered 200 after a request answered with an error.
C14_Witness ==
    /\ errored
    /\ Handled("upload")
    /\ resp.status = 200

\* C15: when two uploads that need the same directories run interleaved,
\* system call by system call, neither part is passed over because the
\* other handler made a directory first: at the end both handlers have
\* answered 200 and both files are saved, each with the content of a part
\* written there.
C15_RaceTolerant ==
    (\A w \in Threads : threads[w].pc = "done") =>
        \A w \in Threads :
            /\ threads[w].status = 200
            /\ threads[w].written
            /\ threads[w].loc \in DOMAIN fsFiles
            /\ \E v \in Threads :
                   /\ threads[v].loc = threads[w].loc
                   /\ fsFiles[threads[w].loc] = threads[v].content
            /\ \A v \in Threads :
                   threads[v].loc # threads[w].loc =>
                       fsFiles[threads[w].loc] = threads[w].content

\* Both handlers are done and the os.mkdir of one found the directory
\* made by the other after it had seen that the directory was missing.
C15_Witness ==
    /\ \A w \in Threads : threads[w].pc = "done" /\ threads[w].written
    /\ threads[1].raced
    /\ threads[1].loc # threads[2].loc
    /\ threads[1].filename = <<"q", "/", "p", "/", "w">>

\* C16: for every path whose normal form is ".." or begins with "../",
\* get_full_path returns the served directory itself: the base directory
\* joined with the empty path, nothing of the given path kept.
C16_FailClosed ==
    (/\ phase = "resolved"
     /\ \/ normpath(req.path) = dotdot
        \/ startswith(normpath(req.path), <<".", ".", sep>>)) =>
        /\ resp.full = base_directory \o <<sep>>
        /\ Canon(resp.full) = RootLoc

C16_Witness ==
    /\ phase = "resolved"
    /\ req.path = <<"p", "/", ".", ".", "/", ".", ".">>
    /\ Canon(resp.full) = RootLoc

\* The declared name with each separator replaced by the other.
Flip(name) ==
    [i \in 1..Len(name) |-> IF name[i] = "/" THEN "\\"
                            ELSE IF name[i] = "\\" THEN "/" ELSE name[i]]

\* C18: an upload and the upload of the same parts with the two separators
\* exchanged in every declared name have the same effect: the same
\* directories created, the same files written at the same locations, the
\* same answer; and two parts of one upload whose declared names differ only
\* in their separators are written to the same location.
C18_SeparatorsInterchangeable ==
    [][(phase' = "handled" /\ req'.kind = "upload") =>
          /\ \A r \in {do_upload(fsDirs, fsFiles, req'.path,
                                  [i \in 1..Len(req'.parts) |->
                                      [req'.parts[i] EXCEPT !.filename = Flip(@)]])} :
                 /\ r.dirs = fsDirs'
                 /\ r.files = fsFiles'
                 /\ r.resp.log = resp'.log
                 /\ r.resp.status = resp'.status
                 /\ r.resp.count = resp'.count
          /\ \A i, j \in 1..Len(resp'.log) :
                 DeclSegs(req'.parts[i].filename) = DeclSegs(req'.parts[j].filename) =>
                     resp'.log[i] = resp'.log[j]]_vars

C18_Witness ==
    /\ Handled("upload")
    /\ req.path = EmptyStr
    /\ Len(req.parts) = 2
    /\ req.parts[1].filename = <<"p", "/", "q">>
    /\ req.parts[2].filename = <<"p", "\\", "q">>
    /\ resp.log[1] = [written |-> TRUE, loc |-> <<<<"r">>, <<"p">>, <<"q">>>>]
    /\ resp.log[2] = resp.log[1]
    /\ fsDirs = InitDirs \cup {<<<<"r">>, <<"p">>>>}

\* C19: a part written to a destination that holds a regular file, from
\* before the upload or from an earlier part of it, replaces the file: the
\* content afterwards is that of the last part written there, and every part
\* written is counted.
C19_Overwrites ==
    [][(phase' = "handled" /\ req'.kind = "upload") =>
          LET log == resp'.log
              W == Written(log)
          IN  /\ resp'.count = Cardinality(W)
              /\ \A i \in W :
                     (\/ log[i].loc \in DOMAIN fsFiles
                      \/ \E j \in W : j < i /\ log[j].loc = log[i].loc) =>
                         LET last == CHOOSE k \in W :
                                         /\ log[k].loc = log[i].loc
                                         /\ \A j \in W : log[j].loc = log[i].loc => j <= k
                         IN  fsFiles'[log[i].loc] = req'.parts[last].content]_vars

\* The file p was there before the upload (the part p/q, processed first,
\* could not be saved) and is written twice.
C19_Witness ==
    /\ Handled("upload")
    /\ req.path = EmptyStr
    /\ Len(req.parts) = 3
    /\ req.parts[1].filename = <<"p", "/", "q">>
    /\ req.parts[2].filename = <<"p">>
    /\ req.parts[3].filename = <<"p">>
    /\ Written(resp.log) = {2, 3}
    /\ resp.count = 2
    /\ fsFiles[<<<<"r">>, <<"p">>>>] = req.parts[3].content

\* C21: every POST request that do_POST has handled, whatever its URL path,
\* has had exactly one response status sent.
C21_OneStatus ==
    (phase = "handled" /\ req.kind \in {"create_folder", "upload", "post"}) =>
        resp.sent = 1

\* C22: no request removes a file or a directory or changes its type: a
\* directory stays a directory, a file stays a file, nothing is both, and
\* the content of a file changes only by an upload that writes it.
C22_OnlyGrows ==
    [][/\ fsDirs \subseteq fsDirs'
       /\ DOMAIN fsFiles \subseteq DOMAIN fsFiles'
       /\ fsDirs' \cap DOMAIN fsFiles' = {}
       /\ \A l \in DOMAIN fsFiles :
              fsFiles'[l] # fsFiles[l] =>
                  /\ req'.kind = "upload"
                  /\ \E i \in Written(resp'.log) : resp'.log[i].loc = l]_vars

\* An upload has been handled after two files were saved by two uploads
\* and a folder was made: everything made before is still there.
C22_Witness ==
    /\ Handled("upload")
    /\ Cardinality(saved) = 2
    /\ created # {}
    /\ \A e \in saved : e.loc \in DOMAIN fsFiles
    /\ Cardinality(fsDirs) > Cardinality(InitDirs)

\* C24: /list and /download leave the filesystem as it was, and so does a
\* /create_folder request that is answered 400.
C24_ReadOnly ==
    [][(/\ phase' = "handled"
        /\ \/ req'.kind \in {"list", "download"}
           \/ req'.kind = "create_folder" /\ resp'.status = 400) =>
          /\ fsDirs' = fsDirs
          /\ fsFiles' = fsFiles]_vars

\* A /create_folder request with a blank name and a parent that does not
\* exist has been rejected, on a filesystem that holds a saved file.
C24_Witness ==
    /\ Handled("create_folder")
    /\ resp.status = 400
    /\ req.body.name = Field(EmptyStr)
    /\ req.body.path = Field(<<"p">>)
    /\ <<<<"r">>, <<"p">>>> \notin fsDirs
    /\ saved # {}

\* C25: an upload answered 400, no file saved, leaves the filesystem as it
\* was.
C25_FailedUploadNoEffect ==
    [][(/\ phase' = "handled"
        /\ req'.kind = "upload"
        /\ resp'.status = 400) =>
          /\ fsDirs' = fsDirs
          /\ fsFiles' = fsFiles]_vars

\* C23: the request made for an entry of a listing under its reported name,
\* /list for a directory and /download for a file, is answered 200.
C23_EntriesAddressable ==
    phase = "followed" => resp.status = 200

====
